---------------------------- MODULE Spec2Model ----------------------------
(***************************************************************************)
(* A model of parse_ci_monitor_json.py: the known-issue classifier         *)
(* (IssuesFinder), its log fetcher with bounded retry, and main's loop     *)
(* that aggregates failed test records into the report written at the end. *)
(*                                                                         *)
(* Two specifications share the module:                                    *)
(*   Spec          main(), one step per external interaction;              *)
(*   SpecClassify  repeated find_issues calls on IssuesFinder instances.   *)
(***************************************************************************)
EXTENDS Integers, Sequences, FiniteSets, TLC

VARIABLES
    \* ---- the IssuesFinder class and the instance in use
    classDef,       \* the issue_* methods of the class, in definition order
    issues_found,   \* self.issues_found of the instance in use
    \* ---- SpecClassify only
    log,            \* the log text every fetch of that specification returns
    calls,          \* the find_issues calls made so far, as a history
    \* ---- main()
    pc,             \* "run" | "rec" | "fetch" | "classify" | "done" | "raised"
    version,        \* args.version
    runs,           \* args.runs: None, or Some(number of run ids)
    runIdx,         \* run ids whose iteration of the outer loop is over
    recIdx,         \* records iterated so far, over all runs
    profile,        \* profile of the current run
    cur,            \* the locals of the failed record in progress, or None
    i,              \* get_file_from_url: the loop variable of range(3)
    content,        \* get_file_from_url: the local `content` (None: unbound)
    requests,       \* outcomes of the requests this get_file_from_url issued
    report,         \* report_struct
    written,        \* the data handed to write_output, one element per call
    exc,            \* the exception that ended main, if any
    last,           \* history: path -> record of the most recent insert there
    lastInsert      \* history: the most recent insert and what it replaced

vars == << classDef, issues_found, log, calls, pc, version, runs, runIdx,
           recIdx, profile, cur, i, content, requests, report, written, exc,
           last, lastInsert >>

classifyVars == << log, calls >>

mainVars == << pc, version, runs, runIdx, recIdx, profile, cur, i, content,
               requests, report, written, exc, last, lastInsert >>

---------------------------------------------------------------------------
(* Bounds of the model. *)

MaxRuns == 2        \* run ids on the command line
MaxRecords == 2     \* records iterated, over all runs
MaxLogLen == 4      \* fragments (and line breaks) in a log text
MaxCalls == 2       \* find_issues calls in SpecClassify

---------------------------------------------------------------------------
(* Python values.  An optional value is a sequence of at most one element: *)
(* None is the empty one.                                                  *)

None == << >>

Some(v) == << v >>

IsNone(o) == o = << >>

Range(s) == { s[k] : k \in 1..Len(s) }

NoExc == [type |-> "", at |-> ""]

Raised(type, at) == [type |-> type, at |-> at]

---------------------------------------------------------------------------
(* Log text.  A log is a sequence of fragments; NL is a line break.  The   *)
(* three fragments are the texts the patterns of                           *)
(* issue_fail_to_get_project_during_cleanup are written for.               *)

NL == "\n"

AfterScenario == "=== After Scenario:"

ServerUnable == "the server is currently unable to handle the request (get projects.project.openshift.io)"

RuntimeErr == "RuntimeError: error getting projects by user"

Fragments == { AfterScenario, ServerUnable, RuntimeErr }

RECURSIVE SeqsUpTo(_, _)
SeqsUpTo(S, n) ==
    IF n = 0 THEN { << >> }
    ELSE LET shorter == SeqsUpTo(S, n - 1)
         IN  shorter \cup { Append(s, x) : s \in { t \in shorter : Len(t) = n - 1 }, x \in S }

Logs == SeqsUpTo(Fragments \cup { NL }, MaxLogLen)

(* str.splitlines(): the lines between line breaks; a trailing line break  *)
(* ends the last line and opens no empty one.                              *)
FirstNL(s) ==
    IF \E k \in 1..Len(s) : s[k] = NL
    THEN CHOOSE k \in 1..Len(s) : s[k] = NL /\ \A j \in 1..(k - 1) : s[j] # NL
    ELSE 0

RECURSIVE splitlines(_)
splitlines(s) ==
    IF s = << >> THEN << >>
    ELSE LET k == FirstNL(s)
         IN  IF k = 0 THEN << s >>
             ELSE << SubSeq(s, 1, k - 1) >> \o splitlines(SubSeq(s, k + 1, Len(s)))

(* The three regular expressions of the rule, by their source text, and    *)
(* the fragment each one matches.                                          *)
ReAfterScenario == "=== After Scenario:"

ReServerUnable == "the server is currently unable to handle the request \\(get projects.project.openshift.io\\)"

ReRuntimeErr == "RuntimeError: error getting projects by user"

MatchedBy(target) ==
    CASE target = ReAfterScenario -> { AfterScenario }
      [] target = ReServerUnable -> { ServerUnable }
      [] target = ReRuntimeErr -> { RuntimeErr }
      [] OTHER -> { }

(* re.search(target, line): the pattern matches somewhere in the line. *)
re_search(target, line) == \E k \in 1..Len(line) : line[k] \in MatchedBy(target)

---------------------------------------------------------------------------
(* IssuesFinder.match_ordered_strings: one flag per target, collected in a *)
(* set, and all() of the set.                                              *)

FoundInSomeLine(log_text, target) ==
    LET lines == splitlines(log_text)
    IN  \E k \in 1..Len(lines) : re_search(target, lines[k])

(* A matcher that honours its name: target k+1 must be found on a line     *)
(* after the line that matched target k.                                   *)
RECURSIVE OrderedFrom(_, _, _)
OrderedFrom(lines, targets, from) ==
    IF targets = << >> THEN TRUE
    ELSE \E k \in from..Len(lines) :
            /\ re_search(Head(targets), lines[k])
            /\ \A j \in from..(k - 1) : ~re_search(Head(targets), lines[j])
            /\ OrderedFrom(lines, Tail(targets), k + 1)

match_in_order(log_text, targets) == OrderedFrom(splitlines(log_text), targets, 1)

match_ordered_strings(log_text, targets) ==
    LET found_all == { FoundInSomeLine(log_text, targets[t]) : t \in 1..Len(targets) }
    IN  \A found \in found_all : found

---------------------------------------------------------------------------
(* The issue_* methods.  A call yields [exc, ret]: the exception it raised *)
(* ("" for none) and the value it returned (None, or Some(description)).   *)

Returned(v) == [exc |-> "", ret |-> v]

Threw(type) == [exc |-> type, ret |-> None]

FailToGetProject == "issue_fail_to_get_project_during_cleanup"

FailToGetProjectDescription == "After scenario RuntimeError raised while getting project during cleanup."

issue_fail_to_get_project_during_cleanup(log_text) ==
    LET re_strings == << ReAfterScenario, ReServerUnable, ReRuntimeErr >>
    IN  IF match_ordered_strings(log_text, re_strings)
        THEN Returned(Some(FailToGetProjectDescription))
        ELSE Returned(None)

(* A rule added the way the class is extended, by one more method whose    *)
(* name starts with issue_.  It reads the first line of the log, and so    *)
(* raises IndexError on a log without lines.                               *)
RunAborted == "issue_run_aborted_on_first_line"

RunAbortedDescription == "Run aborted by a RuntimeError on the first line."

issue_run_aborted_on_first_line(log_text) ==
    LET lines == splitlines(log_text)
    IN  IF lines = << >> THEN Threw("IndexError")
        ELSE IF re_search(ReRuntimeErr, lines[1])
             THEN Returned(Some(RunAbortedDescription))
             ELSE Returned(None)

RuleNames == { FailToGetProject, RunAborted }

call_issue_method(name, log_text) ==
    CASE name = FailToGetProject -> issue_fail_to_get_project_during_cleanup(log_text)
      [] name = RunAborted -> issue_run_aborted_on_first_line(log_text)

(* The classes the model ranges over: every choice and definition order of *)
(* the rules.                                                              *)
ClassDefs ==
    { d \in SeqsUpTo(RuleNames, Cardinality(RuleNames)) :
        \A j, k \in 1..Len(d) : j # k => d[j] # d[k] }

---------------------------------------------------------------------------
(* IssuesFinder.get_issue_methods: dir(self) lists the attribute names of  *)
(* the instance in ascending order of the names; the ones that start with  *)
(* "issue_" are kept, in that order.                                       *)

OtherAttributes ==
    { "find_issues", "get_file_from_url", "get_issue_methods", "issues_found",
      "match_ordered_strings" }

NamesAscending ==
    << "find_issues", "get_file_from_url", "get_issue_methods",
       "issue_fail_to_get_project_during_cleanup", "issue_run_aborted_on_first_line",
       "issues_found", "match_ordered_strings" >>

dir(definition) ==
    SelectSeq(NamesAscending, LAMBDA n : n \in OtherAttributes \cup Range(definition))

startswith_issue_(name) == name \in RuleNames

(* The methods in the order the class defines them. *)
methods_in_definition_order(definition) == definition

get_issue_methods(definition) == SelectSeq(dir(definition), startswith_issue_)

---------------------------------------------------------------------------
(* IssuesFinder.find_issues, after the log text is there: each method is   *)
(* called in turn and what it returns, unless None, is appended to         *)
(* self.issues_found.  Yields [exc, found]: the exception that ended the   *)
(* loop ("" for none) and self.issues_found as the loop left it.           *)

RECURSIVE call_each(_, _, _)
call_each(methods, log_text, found) ==
    IF methods = << >> THEN [exc |-> "", found |-> found]
    ELSE LET r == call_issue_method(Head(methods), log_text)
         IN  IF r.exc # "" THEN [exc |-> r.exc, found |-> found]
             ELSE call_each(Tail(methods), log_text,
                            IF IsNone(r.ret) THEN found ELSE Append(found, r.ret[1]))

(* A find_issues that catches what a method raises and goes on with the    *)
(* next method.                                                            *)
RECURSIVE call_each_swallowing(_, _, _)
call_each_swallowing(methods, log_text, found) ==
    IF methods = << >> THEN [exc |-> "", found |-> found]
    ELSE LET r == call_issue_method(Head(methods), log_text)
         IN  call_each_swallowing(Tail(methods), log_text,
                                  IF IsNone(r.ret) THEN found ELSE Append(found, r.ret[1]))

find_issues_swallowing(definition, log_text, found) ==
    call_each_swallowing(get_issue_methods(definition), log_text, found)

find_issues_with_log(definition, log_text, found) ==
    call_each(get_issue_methods(definition), log_text, found)

---------------------------------------------------------------------------
(* SpecClassify: find_issues called again and again, on the instance in    *)
(* use or on a new one.  Every fetch answers its first request with `log`. *)

Idle ==
    /\ pc = "idle" /\ version = "" /\ runs = None /\ runIdx = 0 /\ recIdx = 0
    /\ profile = "" /\ cur = None /\ i = 0 /\ content = None
    /\ requests = << >> /\ report = << >> /\ written = << >> /\ exc = NoExc
    /\ last = << >> /\ lastInsert = None

InitClassify ==
    /\ classDef \in ClassDefs
    /\ log \in Logs
    /\ issues_found = << >>
    /\ calls = << >>
    /\ Idle

(* issue_finder = IssuesFinder() *)
NewFinder ==
    /\ issues_found' = << >>
    /\ UNCHANGED << classDef, log, calls >>
    /\ UNCHANGED mainVars

(* issue_finder.find_issues(test_info) *)
CallFindIssues ==
    /\ Len(calls) < MaxCalls
    /\ \E has_logs \in BOOLEAN :
         LET r == IF has_logs
                  THEN find_issues_with_log(classDef, log, issues_found)
                  ELSE [exc |-> "", found |-> issues_found]
         IN  /\ issues_found' = r.found
             /\ calls' = Append(calls, [has_logs |-> has_logs,
                                        before |-> issues_found, exc |-> r.exc,
                                        ret |-> IF r.exc = "" THEN r.found ELSE << >>])
    /\ UNCHANGED << classDef, log >>
    /\ UNCHANGED mainVars

NextClassify == NewFinder \/ CallFindIssues

SpecClassify == InitClassify /\ [][NextClassify]_vars

---------------------------------------------------------------------------
(* main(): what the external collaborators can hand it.                    *)

Versions == { "4.9", "" }

(* The class as the source defines it, and the class with the rule added. *)
MainClassDefs == { << FailToGetProject >>, << FailToGetProject, RunAborted >> }

(* A run's title, as its parts between " - " separators. *)
Titles == { << "Nightly 4.14", "aws-ipi" >>, << "Nightly 4.14" >> }

(* The profile pattern applied to output["title"]: the text after the last *)
(* separator; without a separator there is no match and .groups() raises.  *)
get_profile(title) ==
    IF Len(title) >= 2 THEN Returned(title[Len(title)]) ELSE Threw("AttributeError")

(* A comment, as words; a word is a link when it starts with "http". *)
Links == { "http://logs/1" }

Comments == { << "no", "log" >>, << "log:", "http://logs/1", "(console)", NL, "rerun" >> }

FirstLink(words) ==
    IF \E k \in 1..Len(words) : words[k] \in Links
    THEN CHOOSE k \in 1..Len(words) : words[k] \in Links /\ \A j \in 1..(k - 1) : words[j] \notin Links
    ELSE 0

(* The link pattern applied to the comment: from the first "http" to the   *)
(* end of its line; None without one.                                      *)
get_link_to_log(words) ==
    LET k == FirstLink(words)
        rest == SubSeq(words, k, Len(words))
        stop == FirstNL(rest)
    IN  IF k = 0 THEN None
        ELSE Some(IF stop = 0 THEN rest ELSE SubSeq(rest, 1, stop - 1))

(* test_case.customFields.Custom: a list of [key, content]. *)
FeaturePaths == { "features/cli/login.feature" }

CustomFieldLists ==
    { << [key |-> "caseimportance", content |-> << "high" >>],
         [key |-> "automation_script",
          content |-> << "cmd: rake", NL, "file: ", "features/cli/login.feature", NL >>] >>,
      << [key |-> "automation_script", content |-> << "cmd: rake", NL >>] >>,
      << [key |-> "caseimportance", content |-> << "high" >>] >> }

(* The feature-file pattern: "file: ", a features path, a line break. *)
FileMatch(script) ==
    IF \E k \in 1..(Len(script) - 2) :
            script[k] = "file: " /\ script[k + 1] \in FeaturePaths /\ script[k + 2] = NL
    THEN Some(script[(CHOOSE k \in 1..(Len(script) - 2) :
                        /\ script[k] = "file: " /\ script[k + 1] \in FeaturePaths
                        /\ script[k + 2] = NL
                        /\ \A j \in 1..(k - 1) : ~(script[j] = "file: " /\ script[j + 1] \in FeaturePaths /\ script[j + 2] = NL)) + 1])
    ELSE None

(* get_automation_script: the first field with the key decides; without    *)
(* one the local is unbound at the return.                                 *)
RECURSIVE get_automation_script(_)
get_automation_script(cfields) ==
    IF cfields = << >> THEN Threw("UnboundLocalError")
    ELSE IF Head(cfields).key = "automation_script"
         THEN LET m == FileMatch(Head(cfields).content)
              IN  IF IsNone(m) THEN Threw("AttributeError") ELSE Returned(m[1])
         ELSE get_automation_script(Tail(cfields))

CaseIds == { "OCP-1", "OCP-2" }

(* What the egrep | grep pipeline of get_owner hands back: its exit status *)
(* and its output, one [name, domain] per "author name@domain" line.       *)
Lookups ==
    { [rc |-> 1, out |-> << >>],
      [rc |-> 0, out |-> << [name |-> "alice", domain |-> "redhat.com"] >>],
      [rc |-> 0, out |-> << [name |-> "bob", domain |-> "example.org"],
                            [name |-> "version", domain |-> "redhat.com"] >>],
      [rc |-> 0, out |-> << [name |-> "bob", domain |-> "example.org"] >>] }

(* The author pattern: the name of the first author line at redhat.com. *)
AuthorMatch(out) ==
    IF \E k \in 1..Len(out) : out[k].domain = "redhat.com"
    THEN Some(out[CHOOSE k \in 1..Len(out) :
                    out[k].domain = "redhat.com" /\ \A j \in 1..(k - 1) : out[j].domain # "redhat.com"].name)
    ELSE None

(* get_owner: check_output raises CalledProcessError on a non-zero exit,   *)
(* which is caught; .groups() on a failed match raises AttributeError,     *)
(* which is not.                                                           *)
get_owner(lookup) ==
    IF lookup.rc # 0 THEN Returned("Not found")
    ELSE LET m == AuthorMatch(lookup.out)
         IN  IF IsNone(m) THEN Threw("AttributeError") ELSE Returned(m[1])

(* What urlopen(url).read().decode() can do: hand back the text, or raise. *)
SampleLogs ==
    { << >>,
      << AfterScenario >>,
      << RuntimeErr, NL, ServerUnable, AfterScenario >> }

Responses ==
    { [kind |-> "IncompleteRead", text |-> << >>], [kind |-> "URLError", text |-> << >>] }
    \cup { [kind |-> "ok", text |-> t] : t \in SampleLogs }

---------------------------------------------------------------------------
(* report_struct.  A top-level value is the version string or an owner's   *)
(* dict; below it, dicts are functions.                                    *)

StrEntry(str) == [isStr |-> TRUE, s |-> str, d |-> << >>]

DictEntry(dict) == [isStr |-> FALSE, s |-> "", d |-> dict]

Truthy(entry) == IF entry.isStr THEN entry.s # "" ELSE DOMAIN entry.d # { }

Put(dict, key, value) ==
    [k \in DOMAIN dict \cup { key } |-> IF k = key THEN value ELSE dict[k]]

(* report[owner][script][id], or None *)
RecordAt(rep, path) ==
    IF /\ path[1] \in DOMAIN rep
       /\ ~rep[path[1]].isStr
       /\ path[2] \in DOMAIN rep[path[1]].d
       /\ path[3] \in DOMAIN rep[path[1]].d[path[2]]
    THEN Some(rep[path[1]].d[path[2]][path[3]])
    ELSE None

(* An insert that updates the record in place, keeping the keys the new    *)
(* record lacks.                                                           *)
MergeInto(old, new) ==
    IF "known_issues" \in DOMAIN old /\ "known_issues" \notin DOMAIN new
    THEN [case |-> new.case, logs |-> new.logs, profile |-> new.profile,
          known_issues |-> old.known_issues]
    ELSE new

aggregate_merging(rep, owner, script, id, attrs) ==
    IF owner \in DOMAIN rep /\ Truthy(rep[owner])
    THEN IF rep[owner].isStr THEN [exc |-> "AttributeError", report |-> rep]
         ELSE LET scripts == rep[owner].d
              IN  IF script \in DOMAIN scripts /\ DOMAIN scripts[script] # { }
                  THEN IF id \in DOMAIN scripts[script] /\ DOMAIN scripts[script][id] # { }
                       THEN [exc |-> "", report |->
                                Put(rep, owner, DictEntry(Put(scripts, script,
                                    Put(scripts[script], id, MergeInto(scripts[script][id], attrs)))))]
                       ELSE [exc |-> "", report |->
                                Put(rep, owner, DictEntry(Put(scripts, script,
                                    Put(scripts[script], id, attrs))))]
                  ELSE [exc |-> "", report |->
                            Put(rep, owner, DictEntry(Put(scripts, script, id :> attrs)))]
    ELSE [exc |-> "", report |-> Put(rep, owner, DictEntry(script :> (id :> attrs)))]

(* The insert at the end of main's loop body.  dict.get(key, 0) is truthy  *)
(* for a non-empty value; a str has no .get.  Yields [exc, report].        *)
aggregate(rep, owner, script, id, attrs) ==
    IF owner \in DOMAIN rep /\ Truthy(rep[owner])
    THEN IF rep[owner].isStr THEN [exc |-> "AttributeError", report |-> rep]
         ELSE LET scripts == rep[owner].d
              IN  IF script \in DOMAIN scripts /\ DOMAIN scripts[script] # { }
                  THEN IF id \in DOMAIN scripts[script] /\ DOMAIN scripts[script][id] # { }
                       THEN [exc |-> "", report |->
                                Put(rep, owner, DictEntry(Put(scripts, script,
                                    Put(scripts[script], id, attrs))))]
                       ELSE [exc |-> "", report |->
                                Put(rep, owner, DictEntry(Put(scripts, script,
                                    Put(scripts[script], id, attrs))))]
                  ELSE [exc |-> "", report |->
                            Put(rep, owner, DictEntry(Put(scripts, script, id :> attrs)))]
    ELSE [exc |-> "", report |-> Put(rep, owner, DictEntry(script :> (id :> attrs)))]

---------------------------------------------------------------------------
(* main() *)

Init ==
    /\ classDef \in MainClassDefs
    /\ issues_found = << >>
    /\ log = << >>
    /\ calls = << >>
    /\ pc = "run"
    /\ version \in Versions
    /\ runs \in { None } \cup { Some(n) : n \in 1..MaxRuns }
    /\ runIdx = 0
    /\ recIdx = 0
    /\ profile = ""
    /\ cur = None
    /\ i = 0
    /\ content = None
    /\ requests = << >>
    /\ report = ("version" :> StrEntry(version))
    /\ written = << >>
    /\ exc = NoExc
    /\ last = << >>
    /\ lastInsert = None

Raise(type, at) ==
    /\ pc' = "raised"
    /\ exc' = Raised(type, at)

(* The end of an iteration of the record loop: the insert.  The locals of *)
(* the iteration and the IssuesFinder it made are dead once it is over.   *)
Insert(owner, script, id, attrs) ==
    LET r == aggregate(report, owner, script, id, attrs)
        path == << owner, script, id >>
    IN  IF r.exc # ""
        THEN /\ Raise(r.exc, "aggregate")
             /\ UNCHANGED << report, last, lastInsert, recIdx >>
             /\ UNCHANGED << issues_found, cur, i, content, requests >>
        ELSE /\ issues_found' = << >>
             /\ cur' = None
             /\ i' = 0
             /\ content' = None
             /\ requests' = << >>
             /\ report' = r.report
             /\ last' = Put(last, path, attrs)
             /\ lastInsert' = Some([path |-> path, old |-> RecordAt(report, path), new |-> attrs])
             /\ pc' = "rec"
             /\ recIdx' = recIdx + 1
             /\ exc' = exc

(* for run in args.runs, with --runs not given: args.runs is None. *)
RunsMissing ==
    /\ pc = "run"
    /\ IsNone(runs)
    /\ Raise("TypeError", "main")
    /\ UNCHANGED << classDef, issues_found, classifyVars, version, runs, runIdx, recIdx,
                    profile, cur, i, content, requests, report, written, last, lastInsert >>

(* The next run id: get_testrun_json, then the profile from its title. *)
StartRun ==
    /\ pc = "run"
    /\ ~IsNone(runs)
    /\ runIdx < runs[1]
    /\ \/ /\ Raise("CalledProcessError", "get_testrun_json")
          /\ UNCHANGED << profile, recIdx >>
       \/ \E title \in Titles :
            LET p == get_profile(title)
            IN  IF p.exc # ""
                THEN /\ Raise(p.exc, "profile")
                     /\ UNCHANGED << profile, recIdx >>
                ELSE /\ profile' = p.ret
                     /\ recIdx' = recIdx
                     /\ pc' = "rec"
                     /\ exc' = exc
    /\ UNCHANGED << classDef, issues_found, classifyVars, version, runs, runIdx, cur, i,
                    content, requests, report, written, last, lastInsert >>

(* The records of the run are exhausted. *)
EndRun ==
    /\ pc = "rec"
    /\ pc' = "run"
    /\ runIdx' = runIdx + 1
    /\ UNCHANGED << classDef, issues_found, classifyVars, version, runs, recIdx, profile,
                    cur, i, content, requests, report, written, exc, last, lastInsert >>

(* A record whose result is not "Failed". *)
SkipRecord ==
    /\ pc = "rec"
    /\ recIdx < MaxRecords
    /\ \E result \in { "Passed", "Blocked" } :
         /\ result # "Failed"
         /\ recIdx' = recIdx + 1
    /\ UNCHANGED << classDef, issues_found, classifyVars, pc, version, runs, runIdx, profile,
                    cur, i, content, requests, report, written, exc, last, lastInsert >>

(* A failed record, up to the first request for its log; without a link    *)
(* find_issues returns at once and the record is inserted.                 *)
BeginRecord ==
    /\ pc = "rec"
    /\ recIdx < MaxRecords
    /\ \E comment \in Comments, cfields \in CustomFieldLists, id \in CaseIds, lookup \in Lookups :
         LET linkto_logs == get_link_to_log(comment)
             script == get_automation_script(cfields)
             owner == get_owner(lookup)
             failed_test_attrs == [case |-> id, logs |-> linkto_logs, profile |-> profile]
         IN  IF script.exc # ""
             THEN /\ Raise(script.exc, "get_automation_script")
                  /\ cur' = Some([lookup |-> None, owner |-> None, script |-> None,
                                  id |-> None, attrs |-> None])
                  /\ UNCHANGED << issues_found, i, content, requests, report, last,
                                  lastInsert, recIdx >>
             ELSE IF owner.exc # ""
             THEN /\ Raise(owner.exc, "get_owner")
                  /\ cur' = Some([lookup |-> Some(lookup), owner |-> None,
                                  script |-> Some(script.ret), id |-> Some(id),
                                  attrs |-> None])
                  /\ UNCHANGED << issues_found, i, content, requests, report, last,
                                  lastInsert, recIdx >>
             ELSE IF IsNone(linkto_logs)
                  THEN Insert(owner.ret, script.ret, id, failed_test_attrs)
                  ELSE /\ cur' = Some([lookup |-> Some(lookup), owner |-> Some(owner.ret),
                                       script |-> Some(script.ret), id |-> Some(id),
                                       attrs |-> Some(failed_test_attrs)])
                       /\ issues_found' = << >>
                       /\ pc' = "fetch"
                       /\ i' = 0
                       /\ content' = None
                       /\ requests' = << >>
                       /\ UNCHANGED << report, last, lastInsert, recIdx, exc >>
    /\ UNCHANGED << classDef, classifyVars, version, runs, runIdx, profile, written >>

(* get_file_from_url: for i in range(3). *)
Attempts == 3

InRangeOffByOne(k) == k <= Attempts

InRange(k) == k < Attempts

(* One iteration of the loop of get_file_from_url: a request.  A truncated *)
(* read goes on to the next iteration; after the last one the function     *)
(* returns `content`, which is unbound unless a read succeeded.            *)
Request ==
    /\ pc = "fetch"
    /\ InRange(i)
    /\ \E response \in Responses :
         /\ requests' = Append(requests, response.kind)
         /\ CASE response.kind = "ok" ->
                    /\ content' = Some(response.text)
                    /\ pc' = "classify"
                    /\ UNCHANGED << i, exc >>
              [] response.kind = "IncompleteRead" ->
                    /\ i' = i + 1
                    /\ content' = content
                    /\ IF InRange(i + 1) THEN UNCHANGED << pc, exc >>
                       ELSE IF IsNone(content)
                            THEN Raise("UnboundLocalError", "get_file_from_url")
                            ELSE pc' = "classify" /\ exc' = exc
              [] OTHER ->
                    /\ Raise(response.kind, "get_file_from_url")
                    /\ UNCHANGED << i, content >>
    /\ UNCHANGED << classDef, issues_found, classifyVars, version, runs, runIdx, recIdx,
                    profile, cur, report, written, last, lastInsert >>

(* The rest of find_issues on the text fetched, and the insert. *)
Classify ==
    /\ pc = "classify"
    /\ LET r == find_issues_with_log(classDef, content[1], issues_found)
           attrs == cur[1].attrs[1]
           failed_test_attrs ==
               IF r.found # << >>
               THEN [case |-> attrs.case, logs |-> attrs.logs, profile |-> attrs.profile,
                     known_issues |-> r.found]
               ELSE attrs
       IN  IF r.exc # ""
           THEN /\ Raise(r.exc, "find_issues")
                /\ issues_found' = r.found
                /\ UNCHANGED << cur, i, content, requests, report, last, lastInsert, recIdx >>
           ELSE Insert(cur[1].owner[1], cur[1].script[1], cur[1].id[1], failed_test_attrs)
    /\ UNCHANGED << classDef, classifyVars, version, runs, runIdx, profile, written >>

(* write_output(report_struct, args.output), after the loop over the runs. *)
write_output_in_finally ==
    \/ pc = "raised"
    \/ pc = "run" /\ ~IsNone(runs) /\ runIdx = runs[1]

loop_over_runs_exhausted == pc = "run" /\ ~IsNone(runs) /\ runIdx = runs[1]

WriteOutput ==
    /\ loop_over_runs_exhausted
    /\ written' = Append(written, report)
    /\ pc' = "done"
    /\ UNCHANGED << classDef, issues_found, classifyVars, version, runs, runIdx, recIdx,
                    profile, cur, i, content, requests, report, exc, last, lastInsert >>

Next ==
    \/ RunsMissing
    \/ StartRun
    \/ EndRun
    \/ SkipRecord
    \/ BeginRecord
    \/ Request
    \/ Classify
    \/ WriteOutput

Spec == Init /\ [][Next]_vars

---------------------------------------------------------------------------
(* Properties of main(), checked under Spec.                               *)

(* C1: every path that was inserted holds exactly the record of the most   *)
(* recent insert at that path, with nothing of an earlier record in it.    *)
C1_LastWriteWins ==
    \A path \in DOMAIN last : RecordAt(report, path) = Some(last[path])

(* A record with known issues was replaced by one without, from another    *)
(* run, and the report holds the second one alone.                         *)
C1_Witness ==
    /\ ~IsNone(lastInsert)
    /\ ~IsNone(lastInsert[1].old)
    /\ "known_issues" \in DOMAIN lastInsert[1].old[1]
    /\ "known_issues" \notin DOMAIN lastInsert[1].new
    /\ runIdx = 1
    /\ RecordAt(report, lastInsert[1].path) = Some(lastInsert[1].new)

(* C2: one call of get_file_from_url issues at most 3 requests, and every  *)
(* request but the last one it issued ended in IncompleteRead: none        *)
(* follows a request that succeeded.                                       *)
C2_RetryBound ==
    /\ Len(requests) <= 3
    /\ \A k \in 1..(Len(requests) - 1) : requests[k] = "IncompleteRead"

(* Three requests, each one truncated, and the call is over. *)
C2_Witness ==
    /\ requests = << "IncompleteRead", "IncompleteRead", "IncompleteRead" >>
    /\ pc # "fetch"

AllAttemptsTruncated ==
    /\ Len(requests) = 3
    /\ \A k \in 1..3 : requests[k] = "IncompleteRead"

(* C3: when all 3 attempts are truncated, get_file_from_url returns a      *)
(* content value and no error reaches find_issues or main.                 *)
C3_ExhaustionIsNoError ==
    AllAttemptsTruncated => (pc = "classify" /\ ~IsNone(content) /\ exc = NoExc)

DetectorRaises(definition, log_text) ==
    \E name \in Range(definition) : call_issue_method(name, log_text).exc # ""

(* C4, as claimed: a detector that raises never ends main; the record is   *)
(* aggregated without known_issues and the run goes on.                    *)
C4_DetectorFailureContained == exc.at # "find_issues"

(* C4, amended: when a detector raises while a record's log is classified, *)
(* the exception ends main at that step: the record is not inserted, the   *)
(* report stays as it was, nothing was written and nothing follows.        *)
C4_DetectorFailurePropagates ==
    [][ /\ (pc = "classify" /\ DetectorRaises(classDef, content[1]))
            => /\ pc' = "raised"
               /\ exc'.at = "find_issues"
               /\ report' = report
               /\ last' = last
               /\ written' = << >>
        /\ pc = "raised" => UNCHANGED vars ]_vars

(* A detector raised on the second record: the first one is in the report, *)
(* which was never written.                                                *)
C4_Witness ==
    /\ pc = "raised"
    /\ exc = Raised("IndexError", "find_issues")
    /\ DOMAIN last # { }
    /\ written = << >>

LookupFails(lookup) ==
    \/ lookup.rc # 0
    \/ \A k \in 1..Len(lookup.out) : lookup.out[k].domain # "redhat.com"

(* C5: however the ownership lookup fails, get_owner returns "Not found"   *)
(* and the record goes on under that owner.                                *)
C5_OwnerSentinel ==
    (/\ ~IsNone(cur)
     /\ ~IsNone(cur[1].lookup)
     /\ LookupFails(cur[1].lookup[1]))
        => (cur[1].owner = Some("Not found") /\ exc.at # "get_owner")

(* C6: write_output is called at most once, after the loop over all the    *)
(* run ids is over with no record in progress, and never once an error     *)
(* ended main.                                                             *)
C6_AllOrNothing ==
    /\ Len(written) <= 1
    /\ written # << >> =>
          /\ pc = "done"
          /\ exc = NoExc
          /\ ~IsNone(runs)
          /\ runIdx = runs[1]
          /\ IsNone(cur)
          /\ written[1] = report
    /\ exc # NoExc => written = << >>

(* The report of two runs, with a record in it, was written. *)
C6_Witness ==
    /\ Len(written) = 1
    /\ runIdx = 2
    /\ DOMAIN last # { }

(* C10: report["version"] is the configured version string in every state, *)
(* and no insert fails.                                                    *)
C10_VersionStable ==
    /\ "version" \in DOMAIN report
    /\ report["version"] = StrEntry(version)
    /\ exc.at # "aggregate"

---------------------------------------------------------------------------
(* Properties of IssuesFinder, checked under SpecClassify.                 *)

(* The calls that classified the log and returned. *)
Classifications == { k \in 1..Len(calls) : calls[k].has_logs /\ calls[k].exc = "" }

(* C7: classifying the same log text twice returns the same sequence both  *)
(* times, on the same instance or on a new one.                            *)
C7_Idempotent ==
    \A j, k \in Classifications : calls[j].ret = calls[k].ret

Patterns == { ReAfterScenario, ReServerUnable, ReRuntimeErr }

TargetLists == SeqsUpTo(Patterns, Cardinality(Patterns))

(* The fragment occurs in the text, wherever. *)
Occurs(target, log_text) == \E k \in 1..Len(log_text) : log_text[k] \in MatchedBy(target)

RECURSIVE Reverse(_)
Reverse(s) == IF s = << >> THEN << >> ELSE Append(Reverse(Tail(s)), Head(s))

(* C8: match_ordered_strings is True exactly when every target occurs on   *)
(* some line of the log, whatever the order of the lines: the log read     *)
(* backwards gives the same answer (checked for each log before the first  *)
(* call).  So the rule of the source returns its description exactly when  *)
(* its three patterns all occur.                                           *)
C8_PresenceOnly ==
    /\ calls = << >> =>
          \A targets \in TargetLists :
             /\ match_ordered_strings(log, targets)
                   = (\A t \in 1..Len(targets) : Occurs(targets[t], log))
             /\ match_ordered_strings(log, targets) = match_ordered_strings(Reverse(log), targets)
    /\ issue_fail_to_get_project_during_cleanup(log)
          = IF \A target \in Patterns : Occurs(target, log)
            THEN Returned(Some(FailToGetProjectDescription))
            ELSE Returned(None)
    /\ \A k \in Classifications :
          (classDef = << FailToGetProject >> /\ calls[k].before = << >>)
             => calls[k].ret = IF \A target \in Patterns : Occurs(target, log)
                               THEN << FailToGetProjectDescription >>
                               ELSE << >>

(* The three patterns occur against their order in the rule, over two      *)
(* lines, and the classifier of the source returned the description.       *)
C8_Witness ==
    /\ log = << RuntimeErr, NL, ServerUnable, AfterScenario >>
    /\ classDef = << FailToGetProject >>
    /\ \E k \in Classifications : calls[k].ret = << FailToGetProjectDescription >>

DescriptionOf(name) ==
    CASE name = FailToGetProject -> FailToGetProjectDescription
      [] name = RunAborted -> RunAbortedDescription

Matching(definition, log_text) ==
    { name \in Range(definition) : ~IsNone(call_issue_method(name, log_text).ret) }

RECURSIVE DescriptionsOf(_, _)
DescriptionsOf(names, log_text) ==
    IF names = << >> THEN << >>
    ELSE IF ~IsNone(call_issue_method(Head(names), log_text).ret)
         THEN << DescriptionOf(Head(names)) >> \o DescriptionsOf(Tail(names), log_text)
         ELSE DescriptionsOf(Tail(names), log_text)

(* C9, as claimed: a call on a new instance returns the descriptions of    *)
(* the matching rules in the order the class defines the rules.            *)
C9_RegistrationOrder ==
    \A k \in Classifications :
        calls[k].before = << >> => calls[k].ret = DescriptionsOf(classDef, log)

Rank(description) ==
    CHOOSE r \in 1..Len(NamesAscending) :
        NamesAscending[r] \in RuleNames /\ DescriptionOf(NamesAscending[r]) = description

(* C9, amended: a call in which no rule raises returns what issues_found   *)
(* held before it followed by the descriptions of the matching rules, each *)
(* once, in ascending order of the rules' method names.                    *)
C9_NameOrder ==
    \A k \in Classifications :
        LET before == calls[k].before
            ret == calls[k].ret
            out == SubSeq(ret, Len(before) + 1, Len(ret))
        IN  /\ Len(ret) >= Len(before)
            /\ SubSeq(ret, 1, Len(before)) = before
            /\ Len(out) = Cardinality(Matching(classDef, log))
            /\ Range(out) = { DescriptionOf(name) : name \in Matching(classDef, log) }
            /\ \A a, b \in 1..Len(out) : a < b => Rank(out[a]) < Rank(out[b])

(* Two rules defined against the order of their names both matched. *)
C9_Witness ==
    /\ classDef = << RunAborted, FailToGetProject >>
    /\ \E k \in Classifications :
          calls[k].ret = << FailToGetProjectDescription, RunAbortedDescription >>

=============================================================================
